---------------------------- MODULE Spec2Model ----------------------------
(***************************************************************************)
(* Model of the RedPacket contract (src/unnamed/part_000, lines 16-77).    *)
(*                                                                         *)
(* The contract holds one funding batch (totalAmount) divided into count   *)
(* shares.  grabRedPacket pays one share to msg.sender, either an equal    *)
(* portion or a pseudo-random one, and the last share takes the remainder. *)
(*                                                                         *)
(* Every transaction is one action: the EVM runs a call to completion and  *)
(* a revert rolls back every storage write, transfer and log of the call.  *)
(* Amounts are uint256 in the code; every amount of the model is at most   *)
(* the funding sent at construction, and the only arithmetic that can      *)
(* leave the range (avg * 2, max - min, totalAmount - amount, count--) is  *)
(* bounded by totalAmount resp. guarded by require(count > 0), so no       *)
(* value of the model comes near 2^256.  The one checked-arithmetic panic  *)
(* that can happen, rand % range with range = 0, is modelled as a revert.  *)
(*                                                                         *)
(* The page that calls the contract (src/unnamed/part_001, handleGrab) is  *)
(* modelled by the variable ui and the specification SpecUI: its reads     *)
(* and its transaction are separate steps, between which other accounts'   *)
(* transactions run.                                                       *)
(***************************************************************************)
EXTENDS Integers, Naturals, Sequences, FiniteSets, TLC

(***************************************************************************)
(* Bounds of the model.                                                    *)
(***************************************************************************)
\* externally owned accounts 1..NumAccounts can call the contract
NumAccounts == 3
\* constructor argument _count ranges over 0..MaxCount
MaxCount == 3
\* msg.value of the constructor ranges over 0..MaxFunding ...
MaxFunding == 7
\* ... and one funding large enough for min = avg / 100 to be positive
LargeFunding == 401

\* address of a contract whose receive/fallback rejects ether: a
\* transfer(...) to it reverts (line 70)
RejectingContract == 0

EOAs == 1..NumAccounts
Accounts == EOAs \cup {RejectingContract}
\* the externally owned accounts are interchangeable, so the deploying one
\* is account 1; a contract can deploy too
Deployers == {1, RejectingContract}
\* the constructor's inputs <<_count, msg.value>>: every small pair, and one
\* two-share pool funded with LargeFunding
Configs == ((0..MaxCount) \X (0..MaxFunding)) \cup {<<2, LargeFunding>>}
\* rand (lines 55-65) is a digest read as an integer, an input the caller
\* does not choose; 0..MaxRand covers every residue modulo range for the
\* small pools (range <= MaxFunding) and the low residues for the large one
MaxRand == MaxFunding
RandValues == 0..MaxRand

\* revert reasons, as the code spells them
ErrCount == "Count must be > 0"
ErrExhausted == "All red packets grabbed"
ErrEmpty == "No money left"
ErrAlready == "Already grabbed"
ErrPanic == "Panic(0x12)"
ErrTransfer == "transfer failed"
\* totalAmount -= amount or count-- below zero (checked arithmetic)
ErrUnderflow == "Panic(0x11)"
\* a call made with the gas transfer(...) forwards cannot write storage
ErrOutOfGas == "out of gas"
OK == "ok"

VARIABLES
    deployed,          \* TRUE once the constructor has succeeded
    yideng,            \* address payable public yideng
    totalAmount,       \* uint256 public totalAmount
    count,             \* uint256 public count
    isEqual,           \* bool public isEqual
    isGrabbed,         \* mapping(address => uint256) public isGrabbed
    balance,           \* address(this).balance, the funds held
    paid,              \* per account, the ether received from transfer(...)
    events,            \* the Grabbed logs emitted, in order
    fundingTotal,      \* msg.value of the constructor (history)
    shareCountInitial, \* _count of the constructor (history)
    lastCall,          \* the last transaction: operation, sender, outcome
    observed,          \* what the recipient's code saw and did when the
                       \* last transaction's transfer(...) handed it control
    ui                 \* the page of the connected account (part_001):
                       \* where its handleGrab stands and what it holds

vars == <<deployed, yideng, totalAmount, count, isEqual, isGrabbed, balance,
          paid, events, fundingTotal, shareCountInitial, lastCall, observed,
          ui>>

\* the contract's storage and everything else a transaction can change
ledger == <<deployed, yideng, totalAmount, count, isEqual, isGrabbed, balance,
            paid, events, fundingTotal, shareCountInitial>>

\* returned is the call's return data: grabRedPacket() declares no return
\* value (line 37), a constructor returns none, a revert carries its reason
NoCall == [op |-> "none", sender |-> RejectingContract, status |-> OK,
           amount |-> 0, returned |-> <<>>]

Call(op, sender, status, amount) ==
    [op |-> op, sender |-> sender, status |-> status, amount |-> amount,
     returned |-> <<>>]

\* the storage, funds and logs as one value, so that the statements of
\* grabRedPacket can be applied one after the other
Storage ==
    [isGrabbed |-> isGrabbed, totalAmount |-> totalAmount, count |-> count,
     balance |-> balance, paid |-> paid, events |-> events]

\* what the receive function of a recipient does when a payout reaches it:
\* nothing, or call grabRedPacket() again under its own identity and then
\* either ignore that call's failure or revert with it.  (A recipient whose
\* code has another identity call grabRedPacket() is grabRedPacketNested;
\* the outcome of that call is recorded in the field other.)
Hooks == {"accept", "reenter", "reenterBubble"}

\* no transfer handed control to anyone
NoObservation ==
    [hook |-> "none", nested |-> "none", other |-> "none", steps |-> <<>>,
     seen |-> [flag |-> 0, totalAmount |-> 0, count |-> 0, balance |-> 0,
               logs |-> 0]]

\* the page before handleGrab has run: useState(null) for grabbedAmount
\* (part_001, line 19); a value that can be null is <<>> or <<value>>
NoGrab ==
    [pc |-> "idle", address |-> 1, before |-> 0, amountFromEvent |-> <<>>,
     grabbedAmount |-> <<>>, payout |-> 0]

TypeOK ==
    /\ deployed \in BOOLEAN
    /\ yideng \in Accounts
    /\ totalAmount \in Nat
    /\ count \in Nat
    /\ isEqual \in BOOLEAN
    /\ isGrabbed \in [Accounts -> {0, 1}]
    /\ balance \in Nat
    /\ paid \in [Accounts -> Nat]
    /\ events \in Seq([account : Accounts, amount : Nat])
    /\ fundingTotal \in Nat
    /\ shareCountInitial \in Nat
    /\ ui.pc \in {"idle", "sent", "mined", "done", "failed"}
    /\ ui.address \in EOAs

\* before deployment the address holds no code and all storage reads zero
Init ==
    /\ deployed = FALSE
    /\ yideng = RejectingContract
    /\ totalAmount = 0
    /\ count = 0
    /\ isEqual = FALSE
    /\ isGrabbed = [a \in Accounts |-> 0]
    /\ balance = 0
    /\ paid = [a \in Accounts |-> 0]
    /\ events = <<>>
    /\ fundingTotal = 0
    /\ shareCountInitial = 0
    /\ lastCall = NoCall
    /\ observed = NoObservation
    /\ ui = NoGrab

(***************************************************************************)
(* Reverts: require(...) failing, a panic, or a failed transfer roll the   *)
(* whole transaction back; nothing of the ledger changes.                  *)
(***************************************************************************)
\* variant: the claimed flag written before the guard survives the revert
Revert_KeepsFlag(op, sender, reason) ==
    /\ lastCall' = Call(op, sender, reason, 0)
    /\ observed' = NoObservation
    /\ isGrabbed' = [isGrabbed EXCEPT ![sender] = 1]
    /\ UNCHANGED <<deployed, yideng, totalAmount, count, isEqual, balance,
                   paid, events, fundingTotal, shareCountInitial>>

Revert(op, sender, reason) ==
    /\ lastCall' = Call(op, sender, reason, 0)
    /\ observed' = NoObservation
    /\ UNCHANGED ledger

(***************************************************************************)
(* constructor(uint256 _count, bool _isEqual) payable        lines 29-35   *)
(***************************************************************************)
\* variant: the require of line 30 is missing
constructor_NoRequire(sender, _count, _isEqual, value) ==
    /\ ~deployed
    /\ deployed' = TRUE
    /\ yideng' = sender
    /\ count' = _count
    /\ isEqual' = _isEqual
    /\ totalAmount' = value
    /\ balance' = value
    /\ fundingTotal' = value
    /\ shareCountInitial' = _count
    /\ lastCall' = Call("constructor", sender, OK, 0)
    /\ observed' = NoObservation
    /\ UNCHANGED <<isGrabbed, paid, events>>

constructor(sender, _count, _isEqual, value) ==
    /\ ~deployed
    /\ IF ~(_count > 0)
       THEN Revert("constructor", sender, ErrCount)
       ELSE /\ deployed' = TRUE
            /\ yideng' = sender
            /\ count' = _count
            /\ isEqual' = _isEqual
            /\ totalAmount' = value
            /\ balance' = value
            /\ fundingTotal' = value
            /\ shareCountInitial' = _count
            /\ lastCall' = Call("constructor", sender, OK, 0)
            /\ observed' = NoObservation
            /\ UNCHANGED <<isGrabbed, paid, events>>

(***************************************************************************)
(* grabRedPacket()                                           lines 37-76   *)
(***************************************************************************)
\* the three require(...) of lines 38-40, in the order the code checks them
\* variant: the require of line 40 is missing
GuardError_NoGrabbedCheck(sender) ==
    IF ~(count > 0) THEN ErrExhausted
    ELSE IF ~(totalAmount > 0) THEN ErrEmpty
    ELSE OK

\* variant: the require of line 40 comes first
GuardError_GrabbedFirst(sender) ==
    IF ~(isGrabbed[sender] = 0) THEN ErrAlready
    ELSE IF ~(count > 0) THEN ErrExhausted
    ELSE IF ~(totalAmount > 0) THEN ErrEmpty
    ELSE OK

\* variant: the requires of lines 38 and 39 are swapped
GuardError_EmptyFirst(sender) ==
    IF ~(totalAmount > 0) THEN ErrEmpty
    ELSE IF ~(count > 0) THEN ErrExhausted
    ELSE IF ~(isGrabbed[sender] = 0) THEN ErrAlready
    ELSE OK

\* the requires evaluated on the storage st
GuardAt(st, sender) ==
    IF ~(st.count > 0) THEN ErrExhausted
    ELSE IF ~(st.totalAmount > 0) THEN ErrEmpty
    ELSE IF ~(st.isGrabbed[sender] = 0) THEN ErrAlready
    ELSE OK

GuardError(sender) == GuardAt(Storage, sender)

\* lines 50-53
Avg(T, N) == T \div N
\* variant: the ceiling is three times the average
Max_Triple(T, N) == Avg(T, N) * 3

Max(T, N) == Avg(T, N) * 2
Min(T, N) == Avg(T, N) \div 100
\* variant: the floor is added to the width instead of subtracted
Range_AddsMin(T, N) == Max(T, N) + Min(T, N)

Range(T, N) == Max(T, N) - Min(T, N)

\* rand % range (line 66) panics with a division by zero when range = 0;
\* the line is evaluated only in the random branch
ModulusPanics(T, N, eq) == N # 1 /\ ~eq /\ Range(T, N) = 0

\* (rand % range) + min, line 66: the random share before the clamp of
\* line 67
Unclamped(T, N, rand) == (rand % Range(T, N)) + Min(T, N)

\* variant: no count == 1 branch, the last share is computed like the others
ShareAmount_NoFinalBranch(T, N, eq, rand) ==
    IF eq THEN T \div N
    ELSE LET amount == (rand % Range(T, N)) + Min(T, N)
         IN  IF amount > T THEN T ELSE amount

\* variant: the equal share is rounded up
ShareAmount_EqualRoundsUp(T, N, eq, rand) ==
    IF N = 1 THEN T
    ELSE IF eq THEN (T + N - 1) \div N
    ELSE LET amount == (rand % Range(T, N)) + Min(T, N)
         IN  IF amount > T THEN T ELSE amount

\* variant: the equal share divides by the shares left after this one
ShareAmount_EqualOffByOne(T, N, eq, rand) ==
    IF N = 1 THEN T
    ELSE IF eq THEN T \div (N - 1)
    ELSE LET amount == (rand % Range(T, N)) + Min(T, N)
         IN  IF amount > T THEN T ELSE amount

\* variant: the random share forgets the floor, amount = rand % range
ShareAmount_NoMin(T, N, eq, rand) ==
    IF N = 1 THEN T
    ELSE IF eq THEN T \div N
    ELSE LET amount == rand % Range(T, N)
         IN  IF amount > T THEN T ELSE amount

\* variant: the random share can reach max itself, rand % (range + 1)
ShareAmount_InclusiveMax(T, N, eq, rand) ==
    IF N = 1 THEN T
    ELSE IF eq THEN T \div N
    ELSE LET amount == (rand % (Range(T, N) + 1)) + Min(T, N)
         IN  IF amount > T THEN T ELSE amount

\* the amount computed by lines 45-68, for a call that does not panic
ShareAmount(T, N, eq, rand) ==
    IF N = 1 THEN T
    ELSE IF eq THEN T \div N
    ELSE LET amount == (rand % Range(T, N)) + Min(T, N)
         IN  IF amount > T THEN T ELSE amount

\* payable(msg.sender).transfer(amount), line 70: reverts when the
\* recipient rejects the ether or the contract holds less than amount
TransferSucceeds(to, amount) == to # RejectingContract /\ amount <= balance

\* variant: line 71 is missing
Commit_NoTotalUpdate(sender, amount) ==
    /\ isGrabbed' = [isGrabbed EXCEPT ![sender] = 1]
    /\ balance' = balance - amount
    /\ paid' = [paid EXCEPT ![sender] = @ + amount]
    /\ count' = count - 1
    /\ events' = Append(events, [account |-> sender, amount |-> amount])
    /\ lastCall' = Call("grabRedPacket", sender, OK, amount)
    /\ UNCHANGED <<deployed, yideng, isEqual, fundingTotal, shareCountInitial,
                   totalAmount>>

\* variant: line 42 is missing
Commit_NoFlag(sender, amount) ==
    /\ balance' = balance - amount
    /\ paid' = [paid EXCEPT ![sender] = @ + amount]
    /\ totalAmount' = totalAmount - amount
    /\ count' = count - 1
    /\ events' = Append(events, [account |-> sender, amount |-> amount])
    /\ lastCall' = Call("grabRedPacket", sender, OK, amount)
    /\ UNCHANGED <<deployed, yideng, isEqual, fundingTotal, shareCountInitial,
                   isGrabbed>>

(***************************************************************************)
(* The statements of a call that passes every check, one by one.           *)
(***************************************************************************)
\* isGrabbed[msg.sender] = 1, line 42
SetFlag(st, sender) == [st EXCEPT !.isGrabbed[sender] = 1]

\* payable(msg.sender).transfer(amount), line 70
Transfer(st, sender, amount) ==
    [st EXCEPT !.balance = @ - amount, !.paid[sender] = @ + amount]

\* variant: line 72 is missing, count is never decremented
Decrement_TotalOnly(st, amount) == [st EXCEPT !.totalAmount = @ - amount]

\* totalAmount -= amount; count--, lines 71-72
Decrement(st, amount) ==
    [st EXCEPT !.totalAmount = @ - amount, !.count = @ - 1]

\* variant: no event is emitted (the contract as it was before line 75)
Emit_Nothing(st, sender, amount) == st

\* variant: the event carries totalAmount as it is after line 71
Emit_Remaining(st, sender, amount) ==
    [st EXCEPT !.events =
        Append(@, [account |-> sender, amount |-> st.totalAmount])]

\* emit Grabbed(msg.sender, amount), line 75
Emit(st, sender, amount) ==
    [st EXCEPT !.events = Append(@, [account |-> sender, amount |-> amount])]

\* variant: the transfer comes first and the flag is written after it
CommitTrace_TransferFirst(st, sender, amount) ==
    LET s1 == Transfer(st, sender, amount)
        s2 == SetFlag(s1, sender)
        s3 == Decrement(s2, amount)
        s4 == Emit(s3, sender, amount)
    IN  << [step |-> "transfer", st |-> s1], [step |-> "flag", st |-> s2],
           [step |-> "decrement", st |-> s3], [step |-> "emit", st |-> s4] >>

\* variant: the ledger is decremented before the transfer
CommitTrace_DecrementFirst(st, sender, amount) ==
    LET s1 == SetFlag(st, sender)
        s2 == Decrement(s1, amount)
        s3 == Transfer(s2, sender, amount)
        s4 == Emit(s3, sender, amount)
    IN  << [step |-> "flag", st |-> s1], [step |-> "decrement", st |-> s2],
           [step |-> "transfer", st |-> s3], [step |-> "emit", st |-> s4] >>

\* the statements in the order the code runs them, each with the storage it
\* leaves: line 42, line 70, lines 71-72, line 75
CommitTrace(st, sender, amount) ==
    LET s1 == SetFlag(st, sender)
        s2 == Transfer(s1, sender, amount)
        s3 == Decrement(s2, amount)
        s4 == Emit(s3, sender, amount)
    IN  << [step |-> "flag", st |-> s1], [step |-> "transfer", st |-> s2],
           [step |-> "decrement", st |-> s3], [step |-> "emit", st |-> s4] >>

StepNames(trace) == [i \in DOMAIN trace |-> trace[i].step]

\* the storage the recipient's code can read while transfer(...) runs it:
\* the one the transfer statement leaves
AtTransfer(trace) ==
    trace[CHOOSE i \in DOMAIN trace : trace[i].step = "transfer"].st

\* a call of grabRedPacket() made by the recipient's code from inside
\* transfer(...), on the storage st: transfer forwards 2300 gas, which pays
\* for the requires of lines 38-40 but for no storage write, so a call that
\* passes the requires runs out of gas at line 42; either way it reverts
NestedOutcome(st, caller) ==
    IF GuardAt(st, caller) # OK THEN GuardAt(st, caller) ELSE ErrOutOfGas

\* what the recipient sees and does during the transfer of this call
Observation(sender, amount, hook) ==
    LET trace == CommitTrace(Storage, sender, amount)
        st == AtTransfer(trace)
    IN  [hook |-> hook,
         nested |-> IF hook = "accept" THEN "none"
                    ELSE NestedOutcome(st, sender),
         other |-> "none",
         steps |-> StepNames(trace),
         seen |-> [flag |-> st.isGrabbed[sender],
                   totalAmount |-> st.totalAmount, count |-> st.count,
                   balance |-> st.balance, logs |-> Len(st.events)]]

\* the recipient's receive function reverts, and transfer(...) with it
HookReverts(sender, amount, hook) ==
    /\ hook = "reenterBubble"
    /\ Observation(sender, amount, hook).nested # OK

\* the transfer reverted inside the recipient's code
RevertInTransfer(sender, amount, hook) ==
    /\ lastCall' = Call("grabRedPacket", sender, ErrTransfer, 0)
    /\ observed' = Observation(sender, amount, hook)
    /\ UNCHANGED ledger

\* the writes of a call that passes every check: lines 42, 70, 71, 72, 75
Commit(sender, amount) ==
    LET trace == CommitTrace(Storage, sender, amount)
        final == trace[Len(trace)].st
    IN  /\ isGrabbed' = final.isGrabbed
        /\ balance' = final.balance
        /\ paid' = final.paid
        /\ totalAmount' = final.totalAmount
        /\ count' = final.count
        /\ events' = final.events
        /\ lastCall' = Call("grabRedPacket", sender, OK, amount)
        /\ UNCHANGED <<deployed, yideng, isEqual, fundingTotal,
                       shareCountInitial>>

\* variant: transfer(...) forwards all the gas, as call{value: amount}("")
\* would: a nested call that passes the requires runs to its end (its share
\* computed with rand = 0) and its writes stay
NestedCall_Unmetered(st, other) ==
    IF GuardAt(st, other) # OK
    THEN [status |-> GuardAt(st, other), st |-> st]
    ELSE IF ModulusPanics(st.totalAmount, st.count, isEqual)
    THEN [status |-> ErrPanic, st |-> st]
    ELSE LET amount == ShareAmount(st.totalAmount, st.count, isEqual, 0)
             trace == CommitTrace(st, other, amount)
         IN  IF other = RejectingContract \/ amount > st.balance
             THEN [status |-> ErrTransfer, st |-> st]
             ELSE [status |-> OK, st |-> trace[Len(trace)].st]

\* a call of grabRedPacket() made under the identity other by code that the
\* recipient's receive function runs, from inside transfer(...), on the
\* storage st: its outcome and the storage it leaves.  Like the recipient's
\* own nested call it reverts, at the requires or at the write of line 42
NestedCall(st, other) == [status |-> NestedOutcome(st, other), st |-> st]

\* the statements of a call during whose transfer(...) the identity other
\* calls grabRedPacket(): lines 42 and 70, then the nested call on the
\* storage line 70 leaves, then lines 71-75 on the storage the nested call
\* leaves; totalAmount -= amount and count-- are checked (Panic 0x11)
NestedRun(st, sender, amount, other) ==
    LET s1 == SetFlag(st, sender)
        s2 == Transfer(s1, sender, amount)
        n == NestedCall(s2, other)
        s3 == Decrement(n.st, amount)
        s4 == Emit(s3, sender, amount)
    IN  [nested |-> n.status,
         underflow |-> amount > n.st.totalAmount \/ n.st.count < 1,
         final |-> s4]

\* grabRedPacket() by sender, a contract whose receive function has the
\* identity other, which has not claimed, call grabRedPacket() and ignores
\* how that call ends; the call is one that gets as far as line 70 (the
\* calls that revert before are those of grabRedPacket below)
grabRedPacketNested(sender, rand, other) ==
    /\ deployed
    /\ other # sender
    /\ isGrabbed[other] = 0
    /\ GuardError(sender) = OK
    /\ ~ModulusPanics(totalAmount, count, isEqual)
    /\ LET amount == ShareAmount(totalAmount, count, isEqual, rand)
           run == NestedRun(Storage, sender, amount, other)
       IN  /\ TransferSucceeds(sender, amount)
           /\ IF run.underflow
              THEN Revert("grabRedPacket", sender, ErrUnderflow)
              ELSE /\ isGrabbed' = run.final.isGrabbed
                   /\ balance' = run.final.balance
                   /\ paid' = run.final.paid
                   /\ totalAmount' = run.final.totalAmount
                   /\ count' = run.final.count
                   /\ events' = run.final.events
                   /\ lastCall' = Call("grabRedPacket", sender, OK, amount)
                   /\ observed' =
                         [Observation(sender, amount, "accept")
                             EXCEPT !.hook = "reenterOther",
                                    !.other = run.nested]
                   /\ UNCHANGED <<deployed, yideng, isEqual, fundingTotal,
                                  shareCountInitial>>

\* variant: the deployer is exempt from the require of line 40
grabRedPacket_OwnerExempt(sender, rand, hook) ==
    /\ deployed
    /\ IF GuardError(sender) # OK
          /\ ~(sender = yideng /\ GuardError(sender) = ErrAlready)
       THEN Revert("grabRedPacket", sender, GuardError(sender))
       ELSE IF ModulusPanics(totalAmount, count, isEqual)
       THEN Revert("grabRedPacket", sender, ErrPanic)
       ELSE LET amount == ShareAmount(totalAmount, count, isEqual, rand)
            IN  IF ~TransferSucceeds(sender, amount)
                THEN Revert("grabRedPacket", sender, ErrTransfer)
                ELSE /\ Commit(sender, amount)
                     /\ observed' = Observation(sender, amount, hook)

grabRedPacket(sender, rand, hook) ==
    /\ deployed
    /\ IF GuardError(sender) # OK
       THEN Revert("grabRedPacket", sender, GuardError(sender))
       ELSE IF ModulusPanics(totalAmount, count, isEqual)
       THEN Revert("grabRedPacket", sender, ErrPanic)
       ELSE LET amount == ShareAmount(totalAmount, count, isEqual, rand)
            IN  IF ~TransferSucceeds(sender, amount)
                THEN Revert("grabRedPacket", sender, ErrTransfer)
                ELSE IF HookReverts(sender, amount, hook)
                THEN RevertInTransfer(sender, amount, hook)
                ELSE IF amount > totalAmount
                THEN Revert("grabRedPacket", sender, ErrUnderflow)
                ELSE /\ Commit(sender, amount)
                     /\ observed' = Observation(sender, amount, hook)

\* the digest is computed in the random branch only (lines 49-65); the
\* other branches take no entropy.  Line 66 uses rand % range alone, so
\* the values 0..range give every residue and one that wraps around
RandDraws ==
    IF count >= 2 /\ ~isEqual
    THEN {rand \in RandValues : rand <= Range(totalAmount, count)}
    ELSE {0}

\* the recipient's code runs only in a call that gets as far as line 70
HookDraws(sender) == IF GuardError(sender) = OK THEN Hooks ELSE {"accept"}

\* the identity that calls from inside the payout is one that has not
\* claimed and can be paid; the nested call reads of it only its flag
\* (line 40), so the least such account stands for all of them
OtherDraws(sender) ==
    LET clear == {a \in EOAs \ {sender} : isGrabbed[a] = 0}
    IN  IF clear = {} THEN {}
        ELSE {CHOOSE a \in clear : \A b \in clear : a <= b}

\* the transactions of the contract; the page does not move
Next ==
    \/ /\ \E sender \in Deployers, cfg \in Configs, _isEqual \in BOOLEAN :
             constructor(sender, cfg[1], _isEqual, cfg[2])
       /\ UNCHANGED ui
    \/ /\ \E sender \in Accounts, rand \in RandDraws :
             \E hook \in HookDraws(sender) :
                grabRedPacket(sender, rand, hook)
       /\ UNCHANGED ui
    \/ /\ \E sender \in Accounts, rand \in RandDraws :
             \E other \in OtherDraws(sender) :
                grabRedPacketNested(sender, rand, other)
       /\ UNCHANGED ui

Spec == Init /\ [][Next]_vars

\* an account that keeps sending grabRedPacket() and accepts the payout gets
\* its transaction executed: the function is public and takes no argument
\* (line 37), so whether a call runs depends on no other account.  Nothing
\* is assumed about the order in which the accounts' calls run.
Fairness ==
    \A a \in EOAs :
        WF_vars(/\ \E rand \in RandDraws : grabRedPacket(a, rand, "accept")
                /\ UNCHANGED ui)

FairSpec == Spec /\ Fairness

(***************************************************************************)
(* handleGrab of the page (src/unnamed/part_001, lines 62-124).  It is an  *)
(* async function: between its awaits other accounts' transactions run.    *)
(***************************************************************************)
\* formatEther renders an amount of wei as a decimal number of ether, a
\* different string for every amount; the model keeps the amount, tagged
formatEther(wei) == <<"ether", wei>>

\* if (amountFromEvent), line 103: null and 0n are both falsy
Truthy(value) == value # <<>> /\ value[1] # 0

RECURSIVE DecodeLogs(_, _)
\* lines 82-100: the amount of the first Grabbed log of the receipt whose
\* account is the connected address, or null
DecodeLogs(logs, address) ==
    IF logs = <<>> THEN <<>>
    ELSE IF Head(logs).account = address THEN <<Head(logs).amount>>
    ELSE DecodeLogs(Tail(logs), address)

\* lines 62-70: handleGrab starts (it is not running) and reads totalAmount
handleGrabRead(address) ==
    /\ deployed
    /\ ui.pc \in {"idle", "done", "failed"}
    /\ ui' = [pc |-> "sent", address |-> address, before |-> totalAmount,
              amountFromEvent |-> <<>>, grabbedAmount |-> ui.grabbedAmount,
              payout |-> 0]
    /\ UNCHANGED <<ledger, lastCall, observed>>

\* lines 72-100: the transaction of the connected account is executed and
\* its receipt decoded; a revert throws into the catch of lines 119-123.
\* payout is what the transaction paid to the account (history)
handleGrabSend(rand) ==
    /\ ui.pc = "sent"
    /\ grabRedPacket(ui.address, rand, "accept")
    /\ ui' = IF lastCall'.status = OK
             THEN [ui EXCEPT
                      !.pc = "mined",
                      !.amountFromEvent =
                          DecodeLogs(SubSeq(events', Len(events) + 1,
                                            Len(events')), ui.address),
                      !.payout = paid'[ui.address] - paid[ui.address]]
             ELSE [ui EXCEPT !.pc = "failed"]

\* lines 102-117: the amount of the event if it is truthy, else totalAmount
\* read now subtracted from totalAmount read at the start
handleGrabShow ==
    /\ ui.pc = "mined"
    /\ LET pretty == IF Truthy(ui.amountFromEvent)
                     THEN formatEther(ui.amountFromEvent[1])
                     ELSE formatEther(ui.before - totalAmount)
       IN  ui' = [ui EXCEPT !.pc = "done", !.grabbedAmount = <<pretty>>]
    /\ UNCHANGED <<ledger, lastCall, observed>>

\* the page of one connected account, and the transactions of every account
\* whose recipient accepts the payout
NextUI ==
    \/ /\ \E sender \in Deployers, cfg \in Configs, _isEqual \in BOOLEAN :
             constructor(sender, cfg[1], _isEqual, cfg[2])
       /\ UNCHANGED ui
    \/ /\ \E sender \in Accounts, rand \in RandDraws :
             grabRedPacket(sender, rand, "accept")
       /\ UNCHANGED ui
    \/ \E address \in EOAs : handleGrabRead(address)
    \/ \E rand \in RandDraws : handleGrabSend(rand)
    \/ handleGrabShow

SpecUI == Init /\ [][NextUI]_vars

(***************************************************************************)
(* Derived quantities used by the properties.                              *)
(***************************************************************************)
RECURSIVE SumPaid(_)
SumPaid(S) ==
    IF S = {} THEN 0
    ELSE LET a == CHOOSE x \in S : TRUE IN paid[a] + SumPaid(S \ {a})

\* the payouts released so far, over all accounts
TotalPaid == SumPaid(Accounts)
\* the number of claims that have succeeded
NumClaims == Len(events)
\* the identities whose claimed flag is set
Claimed == {a \in Accounts : isGrabbed[a] = 1}
\* the successful claims of one identity
ClaimsOf(a) == {i \in DOMAIN events : events[i].account = a}
\* this step is a successful claim
ClaimSucceeds == Len(events') = Len(events) + 1
\* this step is a call of grabRedPacket by a (a repeated call with the same
\* outcome as the one before leaves every variable alone)
GrabStepBy(a) == lastCall'.op = "grabRedPacket" /\ lastCall'.sender = a

(***************************************************************************)
(* C1  Conservation: for a pool created with funding T0 > 0 and N > 0      *)
(* shares, in either mode and for every entropy value, once exactly N      *)
(* claims have succeeded the payouts sum to T0 exactly.                    *)
(***************************************************************************)
C1_Conservation ==
    (deployed /\ fundingTotal > 0 /\ NumClaims = shareCountInitial)
        => /\ TotalPaid = fundingTotal
           /\ balance = 0

\* a random pool of three shares, all claimed, with unequal payouts
C1_Witness ==
    /\ deployed /\ ~isEqual /\ fundingTotal > 0
    /\ shareCountInitial = 3 /\ NumClaims = 3
    /\ events[1].amount # events[2].amount

\* the same in Equal mode, with a funding the share count does not divide
C1_WitnessEqual ==
    /\ deployed /\ isEqual /\ fundingTotal > 0
    /\ shareCountInitial = 3 /\ NumClaims = 3
    /\ fundingTotal % shareCountInitial # 0

(***************************************************************************)
(* C2  At-most-once payment: over any sequence of serialized calls, for    *)
(* each identity at most one call of grabRedPacket succeeds.               *)
(***************************************************************************)
C2_AtMostOnce ==
    \A a \in Accounts :
        /\ Cardinality(ClaimsOf(a)) <= 1
        /\ (ClaimsOf(a) = {}) => paid[a] = 0
        /\ \A i \in ClaimsOf(a) : paid[a] = events[i].amount

\* an identity that was paid tried again while shares and funds remain
C2_Witness ==
    /\ lastCall.op = "grabRedPacket" /\ lastCall.status = ErrAlready
    /\ ClaimsOf(lastCall.sender) # {}
    /\ paid[lastCall.sender] > 0
    /\ count > 0 /\ totalAmount > 0

(***************************************************************************)
(* C3  As claimed: every later attempt of an identity that has claimed     *)
(* fails with "Already grabbed", in every reachable pool state, the        *)
(* exhausted one (count = 0, totalAmount = 0) included.                    *)
(***************************************************************************)
C3_AlwaysAlreadyGrabbed ==
    [][\A a \in Accounts :
          (deployed /\ isGrabbed[a] = 1 /\ GrabStepBy(a))
              => lastCall'.status = ErrAlready]_vars

(***************************************************************************)
(* C3  As amended: every later attempt of an identity that has claimed     *)
(* fails and pays nothing; it fails with "Already grabbed" while shares    *)
(* remain, and with "All red packets grabbed" once count = 0.              *)
(***************************************************************************)
C3_SecondAttemptFails ==
    [][\A a \in Accounts :
          (deployed /\ isGrabbed[a] = 1 /\ GrabStepBy(a))
              => /\ ~ClaimSucceeds
                 /\ paid' = paid
                 /\ count > 0 => lastCall'.status = ErrAlready
                 /\ count = 0 => lastCall'.status = ErrExhausted]_vars

\* a claimed identity was turned away while another share was still there
C3_Witness ==
    /\ lastCall.op = "grabRedPacket" /\ lastCall.status = ErrAlready
    /\ isGrabbed[lastCall.sender] = 1
    /\ count = 1 /\ shareCountInitial = 3

\* a claimed identity was turned away from the exhausted pool
C3_WitnessExhausted ==
    /\ lastCall.op = "grabRedPacket" /\ lastCall.status = ErrExhausted
    /\ isGrabbed[lastCall.sender] = 1
    /\ count = 0 /\ totalAmount = 0

(***************************************************************************)
(* C4  A rejected claim changes nothing: when grabRedPacket fails,         *)
(* totalAmount, count, every claimed flag, the funds held and paid, and    *)
(* the emitted events are the same before and after the call.              *)
(***************************************************************************)
C4_RejectedChangesNothing ==
    [][(lastCall'.op = "grabRedPacket" /\ lastCall'.status # OK)
          => /\ totalAmount' = totalAmount
             /\ count' = count
             /\ isGrabbed' = isGrabbed
             /\ balance' = balance
             /\ paid' = paid
             /\ events' = events]_vars

\* a claim was rejected on a pool that has paid out and still holds funds;
\* the caller's flag is clear, so a flag written by the call would show
C4_Witness ==
    /\ lastCall.op = "grabRedPacket"
    /\ lastCall.status \in {ErrExhausted, ErrEmpty, ErrAlready, ErrTransfer}
    /\ events # <<>>
    /\ \E a \in Accounts : isGrabbed[a] = 0 /\ lastCall.sender = a

(***************************************************************************)
(* C5  Exhaustion is terminal: once count = 0, every further claim, by an  *)
(* identity that has not claimed in particular, fails with "All red        *)
(* packets grabbed", and the ledger never changes again.                   *)
(***************************************************************************)
C5_ExhaustionTerminal ==
    [][(deployed /\ count = 0)
          => /\ ledger' = ledger
             /\ \A a \in Accounts :
                   GrabStepBy(a) => lastCall'.status = ErrExhausted]_vars

\* an identity that never claimed was turned away from the exhausted pool
C5_Witness ==
    /\ deployed /\ count = 0
    /\ lastCall.op = "grabRedPacket" /\ lastCall.status = ErrExhausted
    /\ isGrabbed[lastCall.sender] = 0
    /\ lastCall.sender # RejectingContract

(***************************************************************************)
(* C6  Terminal drain: in both modes a successful claim made when          *)
(* count = 1 pays exactly the totalAmount held at that moment, and leaves  *)
(* totalAmount = 0 and count = 0.                                          *)
(***************************************************************************)
C6_TerminalDrain ==
    [][(deployed /\ count = 1 /\ ClaimSucceeds)
          => /\ lastCall'.amount = totalAmount
             /\ paid'[lastCall'.sender] = paid[lastCall'.sender] + totalAmount
             /\ events'[Len(events')].amount = totalAmount
             /\ totalAmount' = 0
             /\ count' = 0]_vars

\* the last of several shares of a random pool was claimed and paid
C6_Witness ==
    /\ deployed /\ ~isEqual /\ shareCountInitial >= 2
    /\ count = 0 /\ NumClaims = shareCountInitial
    /\ lastCall.status = OK /\ lastCall.amount > 0

(***************************************************************************)
(* C7  In every reachable state, count = 0 implies totalAmount = 0: no     *)
(* dust is left when the shares run out.                                   *)
(***************************************************************************)
C7_NoDust == (count = 0) => (totalAmount = 0 /\ balance = 0)

\* an equal pool whose funding its share count does not divide, exhausted
C7_Witness ==
    /\ deployed /\ count = 0 /\ isEqual
    /\ shareCountInitial >= 2
    /\ fundingTotal % shareCountInitial # 0

(***************************************************************************)
(* C8  In every reachable state the number of identities whose claimed     *)
(* flag is set equals shareCountInitial minus count.                       *)
(***************************************************************************)
C8_ClaimedCount == Cardinality(Claimed) = shareCountInitial - count

\* two of three shares are claimed
C8_Witness ==
    /\ deployed /\ shareCountInitial = 3 /\ count = 1
    /\ Cardinality(Claimed) = 2

(***************************************************************************)
(* C9  Equal-mode determinism: in Equal mode a successful claim made with  *)
(* count >= 2 pays floor(totalAmount / count) of the state before it,      *)
(* whoever calls and whatever the entropy; the final share pays the        *)
(* exact remainder.                                                        *)
(***************************************************************************)
C9_EqualDeterminism ==
    [][(deployed /\ isEqual /\ ClaimSucceeds)
          => LET share == IF count >= 2 THEN totalAmount \div count
                          ELSE totalAmount
             IN  /\ lastCall'.amount = share
                 /\ paid' = [paid EXCEPT ![lastCall'.sender] = @ + share]
                 /\ totalAmount' = totalAmount - share]_vars

\* an equal pool of 7 in three shares: 2, then 2 of the 5 left, then 3
C9_Witness ==
    /\ deployed /\ isEqual /\ fundingTotal = 7 /\ shareCountInitial = 3
    /\ NumClaims = 3
    /\ events[1].amount = 2 /\ events[2].amount = 2 /\ events[3].amount = 3

(***************************************************************************)
(* C10  Equal split of a divisible pool: in Equal mode, when fundingTotal  *)
(* is a multiple of shareCountInitial, every successful claim, the final   *)
(* one included, pays exactly fundingTotal / shareCountInitial.            *)
(***************************************************************************)
C10_EqualDivisible ==
    (deployed /\ isEqual /\ fundingTotal % shareCountInitial = 0)
        => \A i \in DOMAIN events :
              events[i].amount = fundingTotal \div shareCountInitial

\* an equal pool of 6 in three shares, all claimed
C10_Witness ==
    /\ deployed /\ isEqual /\ fundingTotal = 6 /\ shareCountInitial = 3
    /\ NumClaims = 3

(***************************************************************************)
(* C11  Random-mode bound: in Random mode, for every entropy value, a      *)
(* successful claim made with count >= 2 pays p with min <= p, p <= max    *)
(* and p <= totalAmount of the state before, where                         *)
(* avg = floor(totalAmount / count), min = floor(avg / 100), max = 2 avg.  *)
(***************************************************************************)
C11_RandomBound ==
    [][(deployed /\ ~isEqual /\ count >= 2 /\ ClaimSucceeds)
          => LET avg == totalAmount \div count
                 p == lastCall'.amount
             IN  /\ avg \div 100 <= p
                 /\ p <= 2 * avg
                 /\ p <= totalAmount
                 /\ paid'[lastCall'.sender] = paid[lastCall'.sender] + p
                 /\ totalAmount' = totalAmount - p]_vars

\* the first claim on the large pool, where min = 2, paid more than min
C11_Witness ==
    /\ deployed /\ ~isEqual /\ fundingTotal = LargeFunding
    /\ (fundingTotal \div shareCountInitial) \div 100 > 0
    /\ NumClaims = 1 /\ count >= 1
    /\ events[1].amount > (fundingTotal \div shareCountInitial) \div 100

(***************************************************************************)
(* C12  Zero-range edge case, as claimed: in Random mode with count >= 2,  *)
(* when range = max - min is 0 (totalAmount < count), a claim that passes  *)
(* the guard succeeds with payout = min; it does not abort.                *)
(***************************************************************************)
C12_ZeroRangePaysMin ==
    [][\A a \in EOAs :
          (/\ deployed /\ ~isEqual /\ count >= 2
           /\ 2 * (totalAmount \div count)
                  - (totalAmount \div count) \div 100 = 0
           /\ totalAmount > 0 /\ isGrabbed[a] = 0
           /\ GrabStepBy(a))
              => /\ lastCall'.status = OK
                 /\ lastCall'.amount = (totalAmount \div count) \div 100
                 /\ ClaimSucceeds]_vars

(***************************************************************************)
(* C13  Creation rejects a non-positive share count: a constructor call    *)
(* either fails with "Count must be > 0" and establishes no pool state,    *)
(* or creates a pool with shareCountInitial > 0; so a call with            *)
(* _count = 0 fails, and every created pool has shareCountInitial > 0.     *)
(***************************************************************************)
C13_CountValidated ==
    [][(~deployed /\ lastCall'.op = "constructor")
          => IF lastCall'.status = OK
             THEN /\ deployed'
                  /\ shareCountInitial' > 0
                  /\ count' = shareCountInitial'
             ELSE /\ lastCall'.status = ErrCount
                  /\ ~deployed'
                  /\ ledger' = ledger]_vars

\* a construction was refused and no pool exists
C13_Witness ==
    /\ lastCall.op = "constructor" /\ lastCall.status = ErrCount
    /\ ~deployed /\ count = 0 /\ totalAmount = 0 /\ balance = 0

(***************************************************************************)
(* C14  Creation validates funding, as claimed: every pool that creation   *)
(* accepts has fundingTotal > 0.                                           *)
(***************************************************************************)
C14_FundingPositive == deployed => fundingTotal > 0

(***************************************************************************)
(* C15  Same-identity reentrancy is closed: when the payout of a claim by  *)
(* X hands control to code that calls grabRedPacket again as X before the  *)
(* outer claim has finished, the nested call fails with "Already grabbed"  *)
(* and X is paid exactly once (not at all if the outer call reverts).      *)
(***************************************************************************)
C15_ReentrancyClosed ==
    [][\A x \in Accounts :
          (deployed /\ GrabStepBy(x) /\ observed'.nested # "none")
              => /\ observed'.nested = ErrAlready
                 /\ IF lastCall'.status = OK
                    THEN /\ paid[x] = 0
                         /\ paid'[x] = lastCall'.amount
                         /\ Len(events') = Len(events) + 1
                         /\ Cardinality({i \in DOMAIN events' :
                                           events'[i].account = x}) = 1
                    ELSE /\ paid' = paid
                         /\ events' = events]_vars

\* X re-entered from its payout, was turned away, and kept its one payout
C15_Witness ==
    /\ lastCall.op = "grabRedPacket" /\ lastCall.status = OK
    /\ observed.hook = "reenter" /\ observed.nested = ErrAlready
    /\ paid[lastCall.sender] > 0 /\ count > 0

\* X re-entered and let the nested failure revert its own claim
C15_WitnessBubble ==
    /\ lastCall.op = "grabRedPacket" /\ lastCall.status = ErrTransfer
    /\ observed.hook = "reenterBubble" /\ observed.nested = ErrAlready
    /\ isGrabbed[lastCall.sender] = 0 /\ paid[lastCall.sender] = 0

(***************************************************************************)
(* C16  Commit order within one successful claim: (a) the caller's flag    *)
(* is set, (b) the payout is released, (c) totalAmount and count are       *)
(* decremented, (d) the event is emitted; the state the recipient can      *)
(* observe when the payout is released has the flag set and totalAmount,   *)
(* count and the log still as before the call.                             *)
(***************************************************************************)
C16_CommitOrder ==
    [][(deployed /\ ClaimSucceeds)
          => LET x == lastCall'.sender
                 p == lastCall'.amount
             IN  /\ observed'.steps =
                        <<"flag", "transfer", "decrement", "emit">>
                 /\ isGrabbed[x] = 0
                 /\ observed'.seen.flag = 1
                 /\ observed'.seen.balance = balance - p
                 /\ observed'.seen.totalAmount = totalAmount
                 /\ observed'.seen.count = count
                 /\ observed'.seen.logs = Len(events)
                 /\ totalAmount' = totalAmount - p
                 /\ count' = count - 1]_vars

\* a claim that left shares behind: at its payout the recipient saw more
\* funds and shares recorded than the call left
C16_Witness ==
    /\ lastCall.op = "grabRedPacket" /\ lastCall.status = OK
    /\ observed.seen.flag = 1
    /\ observed.seen.totalAmount > totalAmount
    /\ observed.seen.count = count + 1
    /\ observed.seen.logs = Len(events) - 1
    /\ count > 0

(***************************************************************************)
(* C17  Notification fidelity: every successful claim emits exactly one    *)
(* Grabbed(caller, payout), where payout is the amount by which            *)
(* totalAmount decreased in that claim; a rejected claim emits none.       *)
(***************************************************************************)
C17_NotificationFidelity ==
    [][(deployed /\ lastCall'.op = "grabRedPacket")
          => IF lastCall'.status = OK /\ isGrabbed' # isGrabbed
             THEN /\ events' = Append(events,
                        [account |-> lastCall'.sender,
                         amount |-> totalAmount - totalAmount'])
                  /\ paid'[lastCall'.sender] - paid[lastCall'.sender]
                         = totalAmount - totalAmount'
             ELSE events' = events]_vars

\* the second claim of a pool was logged with its caller and its payout
C17_Witness ==
    /\ lastCall.op = "grabRedPacket" /\ lastCall.status = OK
    /\ NumClaims = 2
    /\ events[2].account = lastCall.sender
    /\ events[2].amount > 0
    /\ events[2].account # events[1].account

(***************************************************************************)
(* C18  As claimed: grabRedPacket returns the committed payout amount to   *)
(* its caller on success.                                                  *)
(***************************************************************************)
C18_ReturnsPayout ==
    (lastCall.op = "grabRedPacket" /\ lastCall.status = OK)
        => lastCall.returned = <<lastCall.amount>>

(***************************************************************************)
(* C18  As amended: grabRedPacket returns no value; on success the         *)
(* committed payout, the amount released and subtracted from totalAmount,  *)
(* is carried by the Grabbed event; on failure the call reverts with a     *)
(* reason and returns nothing.                                             *)
(***************************************************************************)
C18_PayoutInEventOnly ==
    [][(deployed /\ lastCall'.op = "grabRedPacket")
          => /\ lastCall'.returned = <<>>
             /\ IF isGrabbed' # isGrabbed
                THEN LET p == events'[Len(events')].amount
                     IN  /\ lastCall'.status = OK
                         /\ Len(events') = Len(events) + 1
                         /\ paid'[lastCall'.sender]
                                = paid[lastCall'.sender] + p
                         /\ balance' = balance - p
                         /\ totalAmount' = totalAmount - p
                ELSE /\ lastCall'.status \in
                            {ErrExhausted, ErrEmpty, ErrAlready, ErrPanic,
                             ErrTransfer}
                     /\ ledger' = ledger]_vars

\* a claim succeeded, paid, and returned nothing
C18_Witness ==
    /\ lastCall.op = "grabRedPacket" /\ lastCall.status = OK
    /\ lastCall.returned = <<>>
    /\ events[Len(events)].amount > 0
    /\ paid[lastCall.sender] = events[Len(events)].amount

(***************************************************************************)
(* C19  Monotone ledger: in every step after creation totalAmount and      *)
(* count never increase and never go below 0; a successful claim           *)
(* decreases count by exactly 1 and totalAmount by exactly the payout,     *)
(* without underflow; a set claimed flag is never cleared.                 *)
(***************************************************************************)
C19_MonotoneLedger ==
    [][deployed
          => /\ totalAmount' <= totalAmount /\ totalAmount' >= 0
             /\ count' <= count /\ count' >= 0
             /\ \A a \in Accounts : isGrabbed[a] = 1 => isGrabbed'[a] = 1
             /\ lastCall'.status # ErrUnderflow
             /\ ClaimSucceeds
                   => LET x == lastCall'.sender
                          p == paid'[x] - paid[x]
                      IN  /\ p >= 0 /\ p <= totalAmount
                          /\ totalAmount' = totalAmount - p
                          /\ count' = count - 1
                          /\ count >= 1]_vars

\* part of the funds and of the shares are gone, part is left
C19_Witness ==
    /\ deployed /\ NumClaims >= 1
    /\ 0 < totalAmount /\ totalAmount < fundingTotal
    /\ 0 < count /\ count < shareCountInitial

(***************************************************************************)
(* C20  Frame of configuration: no claim, successful or rejected, by any   *)
(* identity, changes isEqual or yideng; a claim by the owner passes the    *)
(* same guard and is paid by the same rule as any other identity's.        *)
(***************************************************************************)
C20_ConfigFrame ==
    [][deployed
          => /\ isEqual' = isEqual
             /\ yideng' = yideng
             /\ GrabStepBy(yideng)
                   => LET st == lastCall'.status
                          p == lastCall'.amount
                          avg == totalAmount \div count
                      IN  /\ count = 0 => st = ErrExhausted
                          /\ (count > 0 /\ totalAmount = 0) => st = ErrEmpty
                          /\ (count > 0 /\ totalAmount > 0
                                /\ isGrabbed[yideng] = 1) => st = ErrAlready
                          /\ st = OK
                                => /\ count > 0 /\ totalAmount > 0
                                   /\ isGrabbed[yideng] = 0
                                   /\ paid'[yideng] = paid[yideng] + p
                                   /\ count = 1 => p = totalAmount
                                   /\ (count >= 2 /\ isEqual) => p = avg
                                   /\ (count >= 2 /\ ~isEqual)
                                         => /\ avg \div 100 <= p
                                            /\ p < 2 * avg]_vars

\* the owner claimed a share, and was turned away when it came back
C20_Witness ==
    /\ deployed /\ yideng = 1
    /\ lastCall.op = "grabRedPacket" /\ lastCall.sender = yideng
    /\ lastCall.status = ErrAlready
    /\ isGrabbed[yideng] = 1 /\ paid[yideng] > 0

(***************************************************************************)
(* C21  The guard is the only source of claim failure, as claimed: in      *)
(* every reachable state a claim by an identity whose flag is clear,       *)
(* made while count > 0 and totalAmount > 0, succeeds, in both modes and   *)
(* for every entropy value.  Stated for callers that accept the payout:    *)
(* an identity of EOAs whose receive code does not revert.                 *)
(***************************************************************************)
C21_GuardOnlyFailure ==
    [][\A a \in EOAs :
          (/\ deployed /\ count > 0 /\ totalAmount > 0 /\ isGrabbed[a] = 0
           /\ GrabStepBy(a)
           /\ observed'.hook # "reenterBubble")
              => /\ lastCall'.status = OK
                 /\ ClaimSucceeds]_vars

(***************************************************************************)
(* C22  Eventual exhaustion, as claimed: a pool created with               *)
(* fundingTotal > 0 and N shares, in either mode, with at least N          *)
(* identities that each keep claiming, eventually reaches count = 0 and    *)
(* totalAmount = 0.                                                        *)
(***************************************************************************)
C22_EventualExhaustion ==
    (deployed /\ fundingTotal > 0) ~> (count = 0 /\ totalAmount = 0)

(***************************************************************************)
(* C23  "No money left" coincides with exhaustion: for a pool created      *)
(* with fundingTotal > 0, in every state reached by serialized claims,     *)
(* totalAmount = 0 only when count = 0, so no claim is rejected with "No   *)
(* money left" while shares remain.                                        *)
(***************************************************************************)
C23_EmptyOnlyWhenExhausted ==
    (deployed /\ fundingTotal > 0)
        => /\ totalAmount = 0 => count = 0
           /\ lastCall.status # ErrEmpty

\* two of three shares were claimed and paid, and the last wei is still
\* there for the final share
C23_Witness ==
    /\ deployed /\ fundingTotal > 0 /\ shareCountInitial = 3
    /\ NumClaims = 2 /\ TotalPaid = fundingTotal - 1
    /\ count = 1 /\ totalAmount = 1

(***************************************************************************)
(* C24  Random-mode solvency: in Random mode, if fundingTotal >=           *)
(* shareCountInitial at creation then totalAmount >= count in every        *)
(* reachable state, for every sequence of entropy values; so at every      *)
(* claim with count >= 2 avg >= 1 and range > 0, and rand % range is       *)
(* never taken by zero.                                                    *)
(***************************************************************************)
C24_RandomSolvency ==
    (deployed /\ ~isEqual /\ fundingTotal >= shareCountInitial)
        => /\ totalAmount >= count
           /\ count >= 2
                 => /\ Avg(totalAmount, count) >= 1
                    /\ Range(totalAmount, count) > 0
                    /\ ~ModulusPanics(totalAmount, count, isEqual)
           /\ lastCall.status # ErrPanic

\* a random pool funded with exactly one wei per share, after a first claim
\* that took the most it could: one wei per share is still left
C24_Witness ==
    /\ deployed /\ ~isEqual
    /\ fundingTotal = 3 /\ shareCountInitial = 3
    /\ NumClaims = 1 /\ events[1].amount = 1
    /\ totalAmount = 2 /\ count = 2

(***************************************************************************)
(* C25  The clamp fires only above max: in Random mode with count >= 2,    *)
(* for every entropy value, the unclamped value min + (rand mod range)     *)
(* exceeds totalAmount only in states where                                *)
(* max = 2 * floor(totalAmount / count) is greater than totalAmount; in    *)
(* every other state the payout is the unclamped value.  The entropy       *)
(* ranges over every residue modulo range and beyond.                      *)
(***************************************************************************)
C25_ClampOnlyAboveMax ==
    (deployed /\ ~isEqual /\ count >= 2 /\ Range(totalAmount, count) > 0)
        => \A rand \in 0..(Range(totalAmount, count) + MaxRand) :
              LET u == Unclamped(totalAmount, count, rand)
              IN  /\ u > totalAmount
                        => Max(totalAmount, count) > totalAmount
                  /\ ~(Max(totalAmount, count) > totalAmount)
                        => ShareAmount(totalAmount, count, isEqual, rand) = u

\* a pool of 6 in two random shares has max = 6 = totalAmount; its first
\* claim drew the largest value there is, 5, and was paid it unclamped
C25_Witness ==
    /\ deployed /\ ~isEqual /\ fundingTotal = 6 /\ shareCountInitial = 2
    /\ NumClaims = 1 /\ count = 1
    /\ events[1].amount = 2 * (fundingTotal \div shareCountInitial) - 1
    /\ totalAmount = 1

(***************************************************************************)
(* C26  Fund safety under nested claims: when the payout of a claim hands  *)
(* control to code that calls grabRedPacket under other identities         *)
(* before the outer claim has decremented totalAmount and count, then in   *)
(* every committed state the payouts released sum to at most fundingTotal  *)
(* and at most shareCountInitial claims have succeeded.                    *)
(***************************************************************************)
C26_NestedFundSafety ==
    deployed
        => /\ TotalPaid <= fundingTotal
           /\ TotalPaid + balance = fundingTotal
           /\ NumClaims <= shareCountInitial
           /\ Cardinality({a \in Accounts : paid[a] > 0}) <= shareCountInitial

\* the last of two shares was claimed by a contract that had an identity
\* with a clear flag call grabRedPacket() during the payout, when count was
\* still 1 and totalAmount not yet 0: the pool paid out its funding, no more
C26_Witness ==
    /\ lastCall.op = "grabRedPacket" /\ lastCall.status = OK
    /\ observed.hook = "reenterOther" /\ observed.other = ErrOutOfGas
    /\ observed.seen.count = 1 /\ observed.seen.totalAmount > 0
    /\ shareCountInitial = 2 /\ NumClaims = 2 /\ count = 0
    /\ TotalPaid = fundingTotal /\ fundingTotal > 0

(***************************************************************************)
(* C27  Decrementing after the payout does not weaken correctness: a       *)
(* claim during whose payout another identity calls grabRedPacket          *)
(* commits exactly the ledger that the same claim commits when it runs     *)
(* alone, so every ledger state reached with nested claims is reached by   *)
(* serialized claims; and the state it commits satisfies the data-model    *)
(* invariants 1-4.                                                         *)
(***************************************************************************)
C27_NestedRefinesSerial ==
    [][(deployed /\ observed'.hook = "reenterOther")
          => LET x == lastCall'.sender
                 p == lastCall'.amount
                 trace == CommitTrace(Storage, x, p)
                 serial == trace[Len(trace)].st
                 claimed == {a \in Accounts : isGrabbed'[a] = 1}
             IN  /\ GuardError(x) = OK
                 /\ \E rand \in RandDraws :
                       p = ShareAmount(totalAmount, count, isEqual, rand)
                 /\ totalAmount' = serial.totalAmount
                 /\ count' = serial.count
                 /\ isGrabbed' = serial.isGrabbed
                 /\ balance' = serial.balance
                 /\ paid' = serial.paid
                 /\ events' = serial.events
                 /\ totalAmount' >= 0 /\ count' >= 0
                 /\ count' = 0 => totalAmount' = 0
                 /\ Cardinality(claimed) = shareCountInitial - count'
                 /\ \A a \in Accounts :
                       Cardinality({i \in DOMAIN events' :
                                      events'[i].account = a})
                           = isGrabbed'[a]]_vars

\* the first claim of an equal pool of 5 in two shares, during whose payout
\* an identity with a clear flag called grabRedPacket(): one claim is
\* committed, one share of 3 is left for a later, serialized claim
C27_Witness ==
    /\ lastCall.op = "grabRedPacket" /\ lastCall.status = OK
    /\ observed.hook = "reenterOther" /\ observed.other = ErrOutOfGas
    /\ isEqual /\ fundingTotal = 5 /\ shareCountInitial = 2
    /\ NumClaims = 1 /\ Cardinality(Claimed) = 1
    /\ count = 1 /\ totalAmount = 3

(***************************************************************************)
(* C28  Displayed amount, as claimed: when handleGrab has completed        *)
(* successfully for the connected account, the amount it displays (from    *)
(* the Grabbed event if one was decoded with a non-zero amount, else       *)
(* totalAmount read before minus totalAmount read after) is the payout     *)
(* of the account's own claim, whatever claims of other accounts ran       *)
(* between the first read, the claim and the second read.                  *)
(***************************************************************************)
C28_DisplayedIsPayout ==
    ui.pc = "done" => ui.grabbedAmount = <<formatEther(ui.payout)>>

=============================================================================
